---- MODULE Spec2Model ----
(***************************************************************************)
(* Model of VisualProfiler.h: the Instrumentor singleton (trace sink) and  *)
(* the InstrumentationTimer scope guard.                                   *)
(*                                                                         *)
(* The output stream is modelled with the state a std::ofstream has: the   *)
(* file buffer being open or not, the path it is open on, the error state  *)
(* (good or not), and the bytes buffered but not yet flushed.  The file    *)
(* system maps each path to the sequence of tokens flushed into it.  One   *)
(* token stands for the text one `<<` statement of the source inserts.     *)
(*                                                                         *)
(* A thread's position inside Stop()/WriteProfile is the number of the     *)
(* source line it executes next (0: not inside the call).                  *)
(***************************************************************************)
EXTENDS Integers, Sequences, FiniteSets, TLC

\* ---------------------------------------------------------------- bounds
NumThreads == 2
\* Events of one run: timer constructions, explicit Stop() calls, BeginSession
\* calls, thread starts, and clock readings that find the clock advanced.
MaxEvents == 4

\* ------------------------------------------------------ program constants
NsPerMicro == 1000

Threads == 1 .. NumThreads
Controller == 1
TimerIds == 1 .. MaxEvents

\* The characters labels are made of; DQ is the double quote, SQ the single quote.
DQ == "\""
SQ == "'"

\* Labels given to PROFILE_SCOPE, as sequences of characters.
Labels == { <<"A">>, <<"s", DQ, "h", DQ>> }

\* Session names and destinations handed to BeginSession.  BadPaths cannot be
\* opened for writing.
Names == { "Profile" }
GoodPaths == { "results.json", "other.json" }
BadPaths == { "/nodir/x.json" }
Paths == GoodPaths \cup BadPaths

ExitPaths == { "fallthrough", "return", "throw" }

\* One reading of steady_clock advances the clock by 0 or by ClockStep
\* nanoseconds.
ClockStep == 600

VARIABLES
  m_SessionName,       \* Instrumentor::m_SessionName
  m_OutputStream,      \* Instrumentor::m_OutputStream: [open, path, good, buf]
  m_ProfileCount,      \* Instrumentor::m_ProfileCount
  m_Lock,              \* Instrumentor::m_Lock: 0 when free, else the holder
  m_IsSessionActive,   \* Instrumentor::m_IsSessionActive
  fs,                  \* the file system: path -> tokens written and flushed
  clock,               \* steady_clock, in nanoseconds
  timers,              \* the InstrumentationTimer objects
  stack,               \* per thread: the timers of its open scopes, innermost last
  pc,                  \* per thread: source line inside Stop()/WriteProfile, 0 outside
  cur,                 \* per thread: the Stop() call in progress
  acq,                 \* history: calls in the order they took m_Lock since the last BeginSession
  last,                \* history: the last session-lifecycle call and what it found
  started,             \* the threads that exist: the main thread and the std::threads started
  nEvents              \* history: number of events so far (see MaxEvents)

vars == << m_SessionName, m_OutputStream, m_ProfileCount, m_Lock, m_IsSessionActive,
           fs, clock, timers, stack, pc, cur, acq, last, started, nEvents >>

sinkVars == << m_SessionName, m_OutputStream, m_ProfileCount, m_IsSessionActive, fs >>
timerVars == << timers, stack >>

\* --------------------------------------------------------------- tokens
Header == << "header" >>
Footer == << "footer" >>
Comma == << "," >>

\* A replacement that stops at the first double quote.
SanitizeFirstOnly(name) ==
  [ i \in 1 .. Len(name) |->
      IF name[i] = DQ /\ (\A j \in 1 .. i - 1 : name[j] # DQ) THEN SQ ELSE name[i] ]

\* std::replace(name.begin(), name.end(), '"', '\'')
Sanitize(name) == [ i \in 1 .. Len(name) |-> IF name[i] = DQ THEN SQ ELSE name[i] ]

\* The time of the Stop() call as the event's timestamp.
TimestampAtStop(result) == result.m_ExecutionEnd

\* result.m_ExecutionStart, line 93.
Timestamp(result) == result.m_ExecutionStart

\* The duration with its operands exchanged.
DurationSwapped(result) == result.m_ExecutionStart - result.m_ExecutionEnd

\* (result.m_ExecutionEnd - result.m_ExecutionStart), line 88.
Duration(result) == result.m_ExecutionEnd - result.m_ExecutionStart

\* The token the statement at source line `line` of WriteProfile inserts for `result`.
RecordToken(line, result) ==
  CASE line = 86 -> << "{" >>
    [] line = 87 -> << "cat", "function" >>
    [] line = 88 -> << "dur", Duration(result) >>
    [] line = 89 -> << "name", Sanitize(result.m_Name) >>
    [] line = 90 -> << "ph", "X" >>
    [] line = 91 -> << "pid", 0 >>
    [] line = 92 -> << "tid", result.m_ThreadID >>
    [] line = 93 -> << "ts", Timestamp(result) >>
    [] line = 94 -> << "}" >>

RecordLines == 86 .. 94

\* The nine tokens of one complete event record.
RecordTokens(result) == [ i \in 1 .. 9 |-> RecordToken(85 + i, result) ]

\* ------------------------------------------------- std::ofstream semantics
ClosedStream == [ open |-> FALSE, path |-> "", good |-> TRUE, buf |-> << >> ]

\* The sink as one value, for the operators below.
Sink == [ name |-> m_SessionName, os |-> m_OutputStream, count |-> m_ProfileCount,
          active |-> m_IsSessionActive, fs |-> fs ]

\* ofstream::open: fails (failbit) when the stream is already open or the
\* destination cannot be opened; on success truncates the file and clears the
\* error state.
StreamOpen(s, filePath) ==
  IF s.os.open \/ filePath \in BadPaths
    THEN [ s EXCEPT !.os.good = FALSE ]
    ELSE [ s EXCEPT !.os = [ open |-> TRUE, path |-> filePath, good |-> TRUE, buf |-> << >> ],
                    !.fs[filePath] = << >> ]

\* operator<<: nothing is inserted when the stream is not good; inserting into
\* a stream whose file is not open fails and sets badbit.
StreamPut(s, tok) ==
  IF ~ s.os.good THEN s
  ELSE IF ~ s.os.open THEN [ s EXCEPT !.os.good = FALSE ]
  ELSE [ s EXCEPT !.os.buf = Append(@, tok) ]

\* ostream::flush: writes the buffered tokens to the file.
StreamFlush(s) ==
  IF s.os.good /\ s.os.open
    THEN [ s EXCEPT !.fs[s.os.path] = @ \o s.os.buf, !.os.buf = << >> ]
    ELSE s

\* ofstream::close: flushes and closes; fails (failbit) when no file is open.
\* The error state is not cleared.
StreamClose(s) ==
  IF s.os.open
    THEN [ s EXCEPT !.fs[s.os.path] = @ \o s.os.buf,
                    !.os.buf = << >>, !.os.open = FALSE, !.os.path = "" ]
    ELSE [ s EXCEPT !.os.good = FALSE ]

\* --------------------------------------------------------- Instrumentor
WriteHeader(s) == StreamFlush(StreamPut(s, Header))

WriteFooter(s) == StreamFlush(StreamPut(s, Footer))

\* EndSession without the close() of line 70.
EndSessionKeepsOpen(s) ==
  IF ~ s.active THEN s
  ELSE LET s1 == [ s EXCEPT !.active = FALSE ]
           s2 == WriteFooter(s1)
       IN  [ s2 EXCEPT !.count = 0 ]

\* EndSession without the early return of lines 64-67.
EndSessionUnguarded(s) ==
  LET s1 == [ s EXCEPT !.active = FALSE ]
      s2 == WriteFooter(s1)
      s3 == StreamClose(s2)
  IN  [ s3 EXCEPT !.count = 0 ]

EndSessionOp(s) ==
  IF ~ s.active THEN s
  ELSE LET s1 == [ s EXCEPT !.active = FALSE ]
           s2 == WriteFooter(s1)
           s3 == StreamClose(s2)
       IN  [ s3 EXCEPT !.count = 0 ]

\* A destructor that does nothing.
DestructorEmpty(s) == s

\* ~Instrumentor() { EndSession(); }, lines 45-48.
InstrumentorDestructor(s) == EndSessionOp(s)

\* BeginSession without the EndSession call of lines 52-55.
BeginSessionNoEnd(s, name, filePath) ==
  LET s1 == [ s EXCEPT !.active = TRUE ]
      s2 == StreamOpen(s1, filePath)
      s3 == WriteHeader(s2)
  IN  [ s3 EXCEPT !.name = name ]

BeginSessionOp(s, name, filePath) ==
  LET s0 == IF s.active THEN EndSessionOp(s) ELSE s
      s1 == [ s0 EXCEPT !.active = TRUE ]
      s2 == StreamOpen(s1, filePath)
      s3 == WriteHeader(s2)
  IN  [ s3 EXCEPT !.name = name ]

SetSink(s) ==
  /\ m_SessionName' = s.name
  /\ m_OutputStream' = s.os
  /\ m_ProfileCount' = s.count
  /\ m_IsSessionActive' = s.active
  /\ fs' = s.fs

\* m_ProfileCount++ > 0 decides the separator (lines 78-81).
WriteSeparator(s) ==
  LET s1 == [ s EXCEPT !.count = @ + 1 ]
  IN  IF s.count > 0 THEN StreamPut(s1, Comma) ELSE s1

\* WriteProfile without the lock_guard: nothing is waited for.
CanLockAlways(t) == TRUE

\* std::lock_guard<std::mutex> lock(m_Lock) can be constructed by thread t.
CanLock(t) == m_Lock = 0

\* A lock that is taken and never released.
LockNeverReleased(line) == FALSE

\* A lock_guard whose scope holds only the counter and the separator.
LockReleasedEarly(line) == line >= 86

\* The scope of the lock_guard ends with the function body: the statement at
\* `line` leaves it.
LockReleasedAt(line) == line >= 97

\* m_Lock after the statement at `line`: released once the guard's scope is left.
LockAfter(line) == IF LockReleasedAt(line) THEN 0 ELSE m_Lock

\* ------------------------------------------------- InstrumentationTimer
\* owner: the thread whose scope holds the timer; parent: the timer of the
\* enclosing scope (0: none); explicit, submits: history of the Stop() calls
\* made explicitly and of the WriteProfile calls made.
NoTimer == [ st |-> "none", owner |-> 0, parent |-> 0, m_Name |-> << >>, m_StartPoint |-> 0,
             m_Stopped |-> FALSE, explicit |-> 0, submits |-> 0 ]

NoResult == [ m_Name |-> << >>, m_ExecutionStart |-> 0, m_ExecutionEnd |-> 0,
              m_ThreadID |-> << 0, 0 >> ]

NoCall == [ timer |-> 0, how |-> "none", result |-> NoResult ]

NoLast == [ op |-> "none", wasActive |-> FALSE, path |-> "", events |-> 0, name |-> "" ]

\* time_point_cast<microseconds>(p).time_since_epoch().count()
ToMicros(ns) == ns \div NsPerMicro

\* std::hash<std::thread::id>{}(id): a 64-bit value per thread, written as its
\* four 16-bit limbs, least significant first.
ThreadHash(t) == << 40 + (t % 2), 0, t \div 2, 0 >>

\* The conversion of the hash to uint32_t m_ThreadID keeps the low 32 bits
\* (the value modulo 2^32): the two low limbs.
ToUint32(h) == << h[1], h[2] >>

\* The values one reading of the clock may return when `budget` events are left.
Readings(budget) == { clock } \cup (IF budget > 0 THEN { clock + ClockStep } ELSE { })

\* The events a reading of c counts for.
Cost(c) == IF c = clock THEN 0 ELSE 1

Quiescent == \A t \in Threads : pc[t] = 0

Running == last.op # "~Instrumentor"

Busy(i) == \E t \in Threads : cur[t].timer = i

FreeIds == { i \in TimerIds : timers[i].st = "none" }

Top(t) == stack[t][Len(stack[t])]

Pop(q) == SubSeq(q, 1, Len(q) - 1)

\* What is left of a timer after its destructor: the object is gone, the
\* history of its Stop() calls remains.
Destroyed(tm) == [ NoTimer EXCEPT !.st = "dead", !.owner = tm.owner, !.parent = tm.parent,
                                  !.explicit = tm.explicit, !.submits = tm.submits ]

\* The destructor's test inverted.
MustStopInverted(tm) == tm.m_Stopped

\* The destructor must call Stop() (line 128).
MustStop(tm) == ~ tm.m_Stopped

\* What Stop() does before it returns when WriteProfile has returned (line 143).
MarkStopped(tm) == [ tm EXCEPT !.m_Stopped = TRUE ]

\* std::thread t(...): the next thread starts (lines 198-200).
StartThread(t) ==
  /\ Running
  /\ t \notin started
  /\ \A u \in Threads : u < t => u \in started
  /\ nEvents < MaxEvents
  /\ started' = started \cup { t }
  /\ nEvents' = nEvents + 1
  /\ UNCHANGED << sinkVars, m_Lock, clock, timerVars, pc, cur, acq, last >>

\* InstrumentationTimer(name): lines 121-124.
Construct(t, label) ==
  /\ Running
  /\ t \in started
  /\ pc[t] = 0
  /\ nEvents < MaxEvents
  /\ LET i == CHOOSE j \in FreeIds : \A k \in FreeIds : j <= k
     IN  \E c \in Readings(MaxEvents - nEvents - 1) :
           /\ clock' = c
           /\ nEvents' = nEvents + 1 + Cost(c)
           /\ timers' = [ timers EXCEPT ![i] =
                 [ st |-> "live", owner |-> t,
                   parent |-> IF stack[t] = << >> THEN 0 ELSE Top(t),
                   m_Name |-> label, m_StartPoint |-> c,
                   m_Stopped |-> FALSE, explicit |-> 0, submits |-> 0 ] ]
           /\ stack' = [ stack EXCEPT ![t] = Append(@, i) ]
  /\ UNCHANGED << sinkVars, m_Lock, pc, cur, acq, last, started >>

\* The thread that constructed the timer instead of the one that stops it.
ConstructingThread(t, i) == timers[i].owner

\* std::this_thread::get_id() inside Stop() (line 140), called by thread t for
\* timer i: the calling thread.
ThisThread(t, i) == t

\* Stop(), lines 136-142: thread t reads the clock, fills the result of timer i
\* and calls WriteProfile with a copy of it.  `calls` is 1 for an explicit call.
StopCall(t, i, how, calls) ==
  \E c \in Readings(MaxEvents - nEvents - calls) :
    /\ clock' = c
    /\ nEvents' = nEvents + calls + Cost(c)
    /\ cur' = [ cur EXCEPT ![t] =
          [ timer |-> i, how |-> how,
            result |-> [ m_Name |-> timers[i].m_Name,
                         m_ExecutionStart |-> ToMicros(timers[i].m_StartPoint),
                         m_ExecutionEnd |-> ToMicros(c),
                         m_ThreadID |-> ToUint32(ThreadHash(ThisThread(t, i))) ] ] ]
    /\ pc' = [ pc EXCEPT ![t] = 76 ]
    /\ timers' = [ timers EXCEPT ![i].submits = @ + 1, ![i].explicit = @ + calls ]

\* An explicit timer.Stop() by thread t on a live timer.
ExplicitStop(t, i) ==
  /\ Running
  /\ t \in started
  /\ pc[t] = 0
  /\ timers[i].st = "live"
  /\ ~ Busy(i)
  /\ nEvents < MaxEvents
  /\ StopCall(t, i, "explicit", 1)
  /\ UNCHANGED << sinkVars, m_Lock, stack, acq, last, started >>

\* The innermost scope of thread t ends by `path` (the closing brace, a return
\* statement, or an exception passing through): ~InstrumentationTimer(),
\* lines 126-132.  The destructor is the same code on every path.
ExitScope(t, path) ==
  /\ Running
  /\ pc[t] = 0
  /\ stack[t] # << >>
  /\ LET i == Top(t)
     IN  /\ ~ Busy(i)
         /\ IF MustStop(timers[i])
              THEN /\ StopCall(t, i, "destructor", 0)
                   /\ UNCHANGED stack
              ELSE /\ timers' = [ timers EXCEPT ![i] = Destroyed(@) ]
                   /\ stack' = [ stack EXCEPT ![t] = Pop(@) ]
                   /\ UNCHANGED << clock, nEvents, cur, pc >>
  /\ UNCHANGED << sinkVars, m_Lock, acq, last, started >>

\* ------------------------------------------- WriteProfile, line by line
\* line 76: take the lock.
WP_Lock(t) ==
  /\ pc[t] = 76
  /\ CanLock(t)
  /\ m_Lock' = t
  /\ acq' = Append(acq, [ timer |-> cur[t].timer, result |-> cur[t].result ])
  /\ pc' = [ pc EXCEPT ![t] = 78 ]
  /\ UNCHANGED << sinkVars, clock, timerVars, cur, last, started, nEvents >>

\* lines 78-84: count the event, write the separator, copy and sanitize the name.
WP_Count(t) ==
  /\ pc[t] = 78
  /\ SetSink(WriteSeparator(Sink))
  /\ pc' = [ pc EXCEPT ![t] = 86 ]
  /\ m_Lock' = LockAfter(pc[t])
  /\ UNCHANGED << clock, timerVars, cur, acq, last, started, nEvents >>

\* lines 86-94: one statement of the record.
WP_Record(t) ==
  /\ pc[t] \in RecordLines
  /\ SetSink(StreamPut(Sink, RecordToken(pc[t], cur[t].result)))
  /\ pc' = [ pc EXCEPT ![t] = IF @ = 94 THEN 96 ELSE @ + 1 ]
  /\ m_Lock' = LockAfter(pc[t])
  /\ UNCHANGED << clock, timerVars, cur, acq, last, started, nEvents >>

\* line 96: flush.
WP_Flush(t) ==
  /\ pc[t] = 96
  /\ SetSink(StreamFlush(Sink))
  /\ pc' = [ pc EXCEPT ![t] = 97 ]
  /\ m_Lock' = LockAfter(pc[t])
  /\ UNCHANGED << clock, timerVars, cur, acq, last, started, nEvents >>

\* line 97: the lock is released and WriteProfile returns; line 143 sets
\* m_Stopped; when Stop() was called by the destructor the object is gone.
WP_Return(t) ==
  /\ pc[t] = 97
  /\ m_Lock' = LockAfter(pc[t])
  /\ LET i == cur[t].timer
     IN  IF cur[t].how = "explicit"
           THEN /\ timers' = [ timers EXCEPT ![i] = MarkStopped(@) ]
                /\ UNCHANGED stack
           ELSE /\ timers' = [ timers EXCEPT ![i] = Destroyed(MarkStopped(@)) ]
                /\ stack' = [ stack EXCEPT ![t] = Pop(@) ]
  /\ pc' = [ pc EXCEPT ![t] = 0 ]
  /\ cur' = [ cur EXCEPT ![t] = NoCall ]
  /\ UNCHANGED << sinkVars, clock, acq, last, started, nEvents >>

\* ------------------------------------------------ session lifecycle calls
\* What a BeginSession call found and was given: whether a session was active,
\* and its arguments.
Began(name, filePath) ==
  [ op |-> "BeginSession", wasActive |-> m_IsSessionActive, path |-> filePath, events |-> 0,
    name |-> name ]

\* What an EndSession call found: whether a session was active, the path its
\* stream was open on and the number of calls that had taken the lock.
Ended(op) ==
  IF m_IsSessionActive
    THEN [ op |-> op, wasActive |-> TRUE, path |-> m_OutputStream.path, events |-> Len(acq),
           name |-> m_SessionName ]
    ELSE [ op |-> op, wasActive |-> FALSE, path |-> "", events |-> 0, name |-> m_SessionName ]

\* Instrumentor::Get().BeginSession(name, filePath), by the controlling thread
\* while no thread is inside Stop().
BeginSession(name, filePath) ==
  /\ Running
  /\ Quiescent
  /\ nEvents < MaxEvents
  /\ SetSink(BeginSessionOp(Sink, name, filePath))
  /\ last' = Began(name, filePath)
  /\ acq' = << >>
  /\ nEvents' = nEvents + 1
  /\ UNCHANGED << m_Lock, clock, timerVars, pc, cur, started >>

\* Instrumentor::Get().EndSession(), by the controlling thread while no thread
\* is inside Stop().
EndSession ==
  /\ Running
  /\ Quiescent
  /\ SetSink(EndSessionOp(Sink))
  /\ last' = Ended("EndSession")
  /\ UNCHANGED << m_Lock, clock, timerVars, pc, cur, acq, started, nEvents >>

\* ~Instrumentor() at process exit (lines 45-48), after every scope has been
\* left and every thread joined.
ProcessExit ==
  /\ Running
  /\ Quiescent
  /\ \A t \in Threads : stack[t] = << >>
  /\ SetSink(InstrumentorDestructor(Sink))
  /\ last' = Ended("~Instrumentor")
  /\ UNCHANGED << m_Lock, clock, timerVars, pc, cur, acq, started, nEvents >>

\* ------------------------------------------------------- specification
Init ==
  /\ m_SessionName = "None"
  /\ m_OutputStream = ClosedStream
  /\ m_ProfileCount = 0
  /\ m_Lock = 0
  /\ m_IsSessionActive = FALSE
  /\ fs = [ p \in Paths |-> << >> ]
  /\ clock = 0
  /\ timers = [ i \in TimerIds |-> NoTimer ]
  /\ stack = [ t \in Threads |-> << >> ]
  /\ pc = [ t \in Threads |-> 0 ]
  /\ cur = [ t \in Threads |-> NoCall ]
  /\ acq = << >>
  /\ last = NoLast
  /\ started = { Controller }
  /\ nEvents = 0

Next ==
  \/ \E t \in Threads : StartThread(t)
  \/ \E t \in Threads, label \in Labels : Construct(t, label)
  \/ \E t \in Threads, i \in TimerIds : ExplicitStop(t, i)
  \/ \E t \in Threads, path \in ExitPaths : ExitScope(t, path)
  \/ \E t \in Threads : WP_Lock(t)
  \/ \E t \in Threads : WP_Count(t)
  \/ \E t \in Threads : WP_Record(t)
  \/ \E t \in Threads : WP_Flush(t)
  \/ \E t \in Threads : WP_Return(t)
  \/ \E name \in Names, filePath \in Paths : BeginSession(name, filePath)
  \/ EndSession
  \/ ProcessExit

Spec == Init /\ [][Next]_vars

\* A thread inside Stop() keeps running: each statement of WriteProfile that
\* can be executed eventually is.
StopStep(t) == WP_Lock(t) \/ WP_Count(t) \/ WP_Record(t) \/ WP_Flush(t) \/ WP_Return(t)

FairSpec == Init /\ [][Next]_vars /\ \A t \in Threads : WF_vars(StopStep(t))

\* -------------------------------------------- lifecycle calls at any time
\* BeginSession and EndSession take no lock (lines 50-72): nothing keeps the
\* controlling thread from calling them while another thread is inside
\* WriteProfile, between any two of its statements.  The statements of the
\* lifecycle call itself are taken in one step here; interleaving them too only
\* adds outcomes.
RacingBeginSession(name, filePath) ==
  /\ Running
  /\ pc[Controller] = 0
  /\ nEvents < MaxEvents
  /\ SetSink(BeginSessionOp(Sink, name, filePath))
  /\ last' = Began(name, filePath)
  /\ acq' = << >>
  /\ nEvents' = nEvents + 1
  /\ UNCHANGED << m_Lock, clock, timerVars, pc, cur, started >>

RacingEndSession ==
  /\ Running
  /\ pc[Controller] = 0
  /\ SetSink(EndSessionOp(Sink))
  /\ last' = Ended("EndSession")
  /\ UNCHANGED << m_Lock, clock, timerVars, pc, cur, acq, started, nEvents >>

NextRace ==
  \/ \E t \in Threads : StartThread(t)
  \/ \E t \in Threads, label \in Labels : Construct(t, label)
  \/ \E t \in Threads, i \in TimerIds : ExplicitStop(t, i)
  \/ \E t \in Threads, path \in ExitPaths : ExitScope(t, path)
  \/ \E t \in Threads : WP_Lock(t)
  \/ \E t \in Threads : WP_Count(t)
  \/ \E t \in Threads : WP_Record(t)
  \/ \E t \in Threads : WP_Flush(t)
  \/ \E t \in Threads : WP_Return(t)
  \/ \E name \in Names, filePath \in Paths : RacingBeginSession(name, filePath)
  \/ RacingEndSession
  \/ ProcessExit

\* The program with lifecycle calls made at any time.
SpecRace == Init /\ [][NextRace]_vars

\* ----------------------------------------------------- reading documents
\* Everything written to the open document, flushed or not.
Doc == IF m_OutputStream.open THEN fs[m_OutputStream.path] \o m_OutputStream.buf ELSE << >>

\* The results of the first n calls that took the lock since the last BeginSession.
AcqResults(n) == [ k \in 1 .. n |-> acq[k].result ]

RECURSIVE FlattenRecords(_)
\* The records of rs one after the other, without separators.
FlattenRecords(rs) ==
  IF rs = << >> THEN << >> ELSE RecordTokens(Head(rs)) \o FlattenRecords(Tail(rs))

RECURSIVE JoinRecords(_)
\* The records of rs joined by single commas.
JoinRecords(rs) ==
  IF rs = << >> THEN << >>
  ELSE IF Len(rs) = 1 THEN RecordTokens(rs[1])
  ELSE RecordTokens(rs[1]) \o << Comma >> \o JoinRecords(Tail(rs))

\* The document of a finished session that recorded rs.
CompleteDoc(rs) == << Header >> \o JoinRecords(rs) \o << Footer >>

IsPrefix(a, b) == Len(a) <= Len(b) /\ a = SubSeq(b, 1, Len(a))

\* d without header, footer and commas.
StripSeparators(d) == SelectSeq(d, LAMBDA x : x \notin { Header, Footer, Comma })

Count(d, tok) == Len(SelectSeq(d, LAMBDA x : x = tok))

\* ------------------------------------------------------------- claims

\* C1: for every N >= 0 and every interleaving of N WriteProfile calls made
\* while one session is active, all returned before EndSession starts, the
\* document after EndSession is the header, the N records joined by exactly
\* N-1 commas, and the footer; no event is lost or duplicated.
C1_ExactDocumentAfterEnd ==
  (last.op = "EndSession" /\ last.wasActive /\ last.path \in GoodPaths)
    => fs[last.path] = CompleteDoc(AcqResults(last.events))

\* C2: a timer on which Stop() is never called explicitly submits no
\* measurement before its scope ends and exactly one when it ends, on every
\* exit path.
C2_OneSubmissionAtScopeExit ==
  \A i \in TimerIds :
    timers[i].explicit = 0 =>
      timers[i].submits = (IF timers[i].st = "dead" \/ Busy(i) THEN 1 ELSE 0)

C2_Witness ==
  \E i \in TimerIds :
    /\ timers[i].st = "dead"
    /\ timers[i].explicit = 0
    /\ timers[i].submits = 1
    /\ \E j \in TimerIds : timers[j].st = "live" /\ timers[j].submits = 0

\* C3: Stop() on a stopped timer is a no-op: whatever explicit Stop() calls
\* precede its destruction, one timer submits exactly one measurement.
C3_ExactlyOneSubmissionPerTimer ==
  \A i \in TimerIds : timers[i].st = "dead" => timers[i].submits = 1

\* C4: a WriteProfile call made while no session is active changes nothing of
\* the sink: active flag, session name, event counter, stream and files.
C4_InactiveWriteChangesNothing ==
  [][ (~ m_IsSessionActive /\ \E t \in Threads : WP_Count(t) \/ WP_Record(t) \/ WP_Flush(t))
        => UNCHANGED sinkVars ]_vars

\* C5: after BeginSession returns the event counter is 0, whatever preceded
\* it, and the first record of a session follows the header without a comma.
C5_CounterZeroAfterBegin ==
  /\ (last.op = "BeginSession" /\ acq = << >>) => m_ProfileCount = 0
  /\ Len(Doc) >= 2 => ~ (Doc[1] = Header /\ Doc[2] = Comma)

\* C6: EndSession with no session active changes nothing: no footer is
\* written, stream, files, active flag, session name and event counter stay
\* as they are; so no document ever holds more than one footer.
C6_EndSessionInactiveNoOp ==
  /\ [][ (EndSession /\ ~ m_IsSessionActive) => UNCHANGED << sinkVars, m_Lock >> ]_vars
  /\ [](\A p \in Paths : Count(fs[p], Footer) <= 1)

C6_Witness ==
  /\ last.op = "EndSession"
  /\ ~ last.wasActive
  /\ \E p \in Paths : Count(fs[p], Footer) = 1 /\ Len(fs[p]) > 2

\* C7 as stated: BeginSession on an active session leaves the old document
\* with everything recorded so far plus its footer, and the new document
\* holding just the header.
C7_OldDocumentKept ==
  [][ \A name \in Names, filePath \in GoodPaths :
        (BeginSession(name, filePath) /\ m_IsSessionActive /\ m_OutputStream.open)
          => /\ fs'[m_OutputStream.path] = fs[m_OutputStream.path] \o << Footer >>
             /\ Doc' = << Header >> ]_vars

\* C7 amended: BeginSession on an active session first gives the old document
\* its footer and closes it, then opens the new destination and writes the
\* header there.  The old document keeps everything recorded so far when the
\* new destination is another path; when it is the old session's own path the
\* open truncates the finished document.  Nothing of the new session is
\* written into the old document.
C7_EndsOldThenBeginsNew ==
  [][ \A name \in Names, filePath \in Paths :
        (BeginSession(name, filePath) /\ m_IsSessionActive /\ m_OutputStream.open)
          => LET old == m_OutputStream.path
             IN  /\ old # filePath => fs'[old] = fs[old] \o << Footer >>
                 /\ filePath \in GoodPaths =>
                      /\ fs'[filePath] = << Header >>
                      /\ m_OutputStream' = [ open |-> TRUE, path |-> filePath,
                                             good |-> TRUE, buf |-> << >> ]
                 /\ filePath \in BadPaths => ~ m_OutputStream'.open
                 /\ m_ProfileCount' = 0
                 /\ m_SessionName' = name ]_vars

C7_Witness ==
  /\ last.op = "BeginSession"
  /\ last.wasActive
  /\ m_OutputStream.open
  /\ Doc = << Header >>
  /\ \E p \in GoodPaths :
       /\ p # m_OutputStream.path
       /\ Len(fs[p]) > 2
       /\ fs[p][1] = Header
       /\ fs[p][Len(fs[p])] = Footer

\* C8: when BeginSession cannot open its destination no session is active
\* after the call.
C8_FailedOpenLeavesInactive ==
  (last.op = "BeginSession" /\ last.path \in BadPaths) => ~ m_IsSessionActive

RECURSIVE Encloses(_, _)
\* The scope of timer i encloses the scope of timer j.
Encloses(i, j) ==
  /\ timers[j].parent # 0
  /\ (timers[j].parent = i \/ Encloses(i, timers[j].parent))

\* C9: the records stand in the document in the order in which their
\* WriteProfile calls took the lock; of two scopes of one thread that end
\* without an explicit Stop(), an inner one is recorded before the scope that
\* encloses it, and an earlier one before a later one that follows it.
C9_RecordsInLockOrder ==
  /\ (m_IsSessionActive /\ m_OutputStream.open) =>
       /\ IsPrefix(StripSeparators(Doc), FlattenRecords(AcqResults(Len(acq))))
       /\ m_Lock = 0 => StripSeparators(Doc) = FlattenRecords(AcqResults(Len(acq)))
  /\ \A k1, k2 \in 1 .. Len(acq) :
       LET i == acq[k1].timer
           j == acq[k2].timer
       IN  (/\ i < j
            /\ timers[i].explicit = 0
            /\ timers[j].explicit = 0
            /\ timers[i].owner = timers[j].owner)
             => IF Encloses(i, j) THEN k2 < k1 ELSE k1 < k2

C9_Witness ==
  /\ m_IsSessionActive
  /\ m_Lock = 0
  /\ Len(acq) = 3
  /\ << acq[1].timer, acq[2].timer, acq[3].timer >> = << 1, 3, 2 >>
  /\ Encloses(2, 3)
  /\ \A i \in 1 .. 3 : timers[i].explicit = 0 /\ timers[i].owner = 1
  /\ Len(StripSeparators(Doc)) = 27

\* The place of a token inside an event record (0: not part of a record).
FieldIndex(tok) ==
  CASE tok[1] = "{" -> 1
    [] tok[1] = "cat" -> 2
    [] tok[1] = "dur" -> 3
    [] tok[1] = "name" -> 4
    [] tok[1] = "ph" -> 5
    [] tok[1] = "pid" -> 6
    [] tok[1] = "tid" -> 7
    [] tok[1] = "ts" -> 8
    [] tok[1] = "}" -> 9
    [] OTHER -> 0

\* Every record of d is written in one piece and every comma stands directly
\* in front of a record.
Contiguous(d) ==
  \A k \in 1 .. Len(d) :
    LET f == FieldIndex(d[k])
    IN  /\ f > 1 => k > 1 /\ FieldIndex(d[k - 1]) = f - 1
        /\ f = 1 => k > 1 /\ d[k - 1] \in { Header, Comma }
        /\ (f \in 1 .. 8 /\ k < Len(d)) => FieldIndex(d[k + 1]) = f + 1
        /\ (d[k] = Comma /\ k < Len(d)) => FieldIndex(d[k + 1]) = 1

InsideLock(t) == pc[t] \in 78 .. 97

\* C10: at most one thread is between taking and releasing the lock, it is
\* the holder, and the separator and the nine pieces of a record are never
\* mixed with those of another call.
C10_WriteIsAtomic ==
  /\ Cardinality({ t \in Threads : InsideLock(t) }) <= 1
  /\ \A t \in Threads : InsideLock(t) => m_Lock = t
  /\ Contiguous(Doc)
  /\ \A p \in Paths : Contiguous(fs[p])

C10_Witness ==
  /\ m_IsSessionActive
  /\ m_OutputStream.open
  /\ \E t, u \in Threads : pc[t] \in 87 .. 94 /\ pc[u] = 76
  /\ Count(Doc, Comma) = 0

\* C11: whenever a session is active and no WriteProfile call is inside its
\* critical section, the document holds the header followed by k complete
\* records joined by exactly k-1 commas, k being the event counter, all of it
\* flushed, and no footer.
C11_HeaderAndCountRecords ==
  (m_IsSessionActive /\ m_OutputStream.open /\ m_Lock = 0)
    => /\ m_OutputStream.buf = << >>
       /\ m_ProfileCount = Len(acq)
       /\ fs[m_OutputStream.path] = << Header >> \o JoinRecords(AcqResults(Len(acq)))

\* The place in Doc of the name written by the call of thread t, once line 89
\* has run.
NameIndex(t) == Len(Doc) - (IF pc[t] >= 96 THEN 5 ELSE pc[t] - 90)

\* C12: the name of an event is the timer's label with every double quote
\* replaced by a single quote and every other character unchanged, at the same
\* place and of the same length; no written name holds a double quote; the
\* label of the caller is not modified.
C12_NameSanitized ==
  /\ [][ \A i \in TimerIds :
           (timers[i].st = "live" /\ timers'[i].st = "live")
             => timers'[i].m_Name = timers[i].m_Name ]_vars
  /\ [](/\ \A t \in Threads :
             pc[t] # 0 => cur[t].result.m_Name = timers[cur[t].timer].m_Name
        /\ \A t \in Threads :
             (pc[t] \in 90 .. 97 /\ m_OutputStream.open) =>
               LET label == timers[cur[t].timer].m_Name
                   tok == Doc[NameIndex(t)]
               IN  /\ tok[1] = "name"
                   /\ Len(tok[2]) = Len(label)
                   /\ \A k \in 1 .. Len(label) :
                        tok[2][k] = (IF label[k] = DQ THEN SQ ELSE label[k])
        /\ \A p \in Paths : \A k \in 1 .. Len(fs[p]) :
             fs[p][k][1] = "name" => \A c \in 1 .. Len(fs[p][k][2]) : fs[p][k][2][c] # DQ)

C12_Witness ==
  \E t \in Threads :
    /\ pc[t] \in 90 .. 97
    /\ m_OutputStream.open
    /\ timers[cur[t].timer].m_Name = << "s", DQ, "h", DQ >>
    /\ Doc[NameIndex(t)] = << "name", << "s", SQ, "h", SQ >> >>

\* C13: with a clock that never goes back, the start of a measurement is the
\* clock read at construction and its end the clock read inside Stop(), both in
\* whole microseconds; end >= start; the event's dur is end - start >= 0 and
\* its ts is start.
C13_DurationAndTimestamp ==
  /\ [][ /\ clock' >= clock
         /\ \A i \in TimerIds :
              (timers[i].st = "none" /\ timers'[i].st = "live")
                => timers'[i].m_StartPoint = clock'
         /\ \A t \in Threads :
              (pc[t] = 0 /\ pc'[t] = 76) =>
                LET r == cur'[t].result
                    tm == timers[cur'[t].timer]
                IN  /\ tm.m_StartPoint <= clock
                    /\ r.m_ExecutionStart * NsPerMicro <= tm.m_StartPoint
                    /\ tm.m_StartPoint < (r.m_ExecutionStart + 1) * NsPerMicro
                    /\ r.m_ExecutionEnd * NsPerMicro <= clock'
                    /\ clock' < (r.m_ExecutionEnd + 1) * NsPerMicro ]_vars
  /\ [](/\ \A t \in Threads :
             pc[t] # 0 => cur[t].result.m_ExecutionEnd >= cur[t].result.m_ExecutionStart
        /\ \A t \in Threads :
             (pc[t] \in 89 .. 97 /\ m_OutputStream.open) =>
               LET r == cur[t].result
                   dur == Doc[NameIndex(t) - 1]
               IN  /\ dur = << "dur", r.m_ExecutionEnd - r.m_ExecutionStart >>
                   /\ dur[2] >= 0
        /\ \A t \in Threads :
             (pc[t] \in 94 .. 97 /\ m_OutputStream.open) =>
               Doc[NameIndex(t) + 4] = << "ts", cur[t].result.m_ExecutionStart >>
        /\ \A p \in Paths : \A k \in 1 .. Len(fs[p]) :
             fs[p][k][1] = "dur" => fs[p][k][2] >= 0)

C13_Witness ==
  \E t \in Threads :
    /\ pc[t] = 97
    /\ m_OutputStream.open
    /\ timers[cur[t].timer].m_StartPoint > 0
    /\ Doc[NameIndex(t) - 1][1] = "dur"
    /\ Doc[NameIndex(t) - 1][2] > 0
    /\ Doc[NameIndex(t) + 4][1] = "ts"

\* Document d is finished: its last token is the footer.
Finished(d) == d # << >> /\ d[Len(d)] = Footer

\* C14: EndSession on an active session appends the footer to the session's
\* document, which then holds exactly one, closes the stream, sets the event
\* counter to 0 and marks the session inactive.  A finished document is never
\* changed afterwards, whatever WriteProfile or EndSession calls follow; only a
\* BeginSession on its own path replaces it.
C14_EndSessionFinishesDocument ==
  [][ /\ (EndSession /\ m_IsSessionActive) =>
           /\ m_OutputStream.open =>
                LET p == m_OutputStream.path
                IN  /\ fs'[p] = fs[p] \o << Footer >>
                    /\ Count(fs'[p], Footer) = 1
                    /\ \A q \in Paths \ { p } : fs'[q] = fs[q]
           /\ ~ m_OutputStream.open => fs' = fs
           /\ ~ m_OutputStream'.open
           /\ m_OutputStream'.buf = << >>
           /\ m_ProfileCount' = 0
           /\ ~ m_IsSessionActive'
      /\ \A p \in Paths :
           (Finished(fs[p]) /\ fs'[p] # fs[p])
             => \E name \in Names : BeginSession(name, p) ]_vars

C14_Witness ==
  /\ last.op = "EndSession"
  /\ last.wasActive
  /\ last.path \in GoodPaths
  /\ Finished(fs[last.path])
  /\ Count(fs[last.path], Footer) = 1
  /\ Len(fs[last.path]) > 2
  /\ Len(acq) > last.events
  /\ Quiescent
  /\ ~ m_IsSessionActive

\* Nothing of d follows a footer and nothing but the header is its first token.
Framed(d) ==
  /\ d # << >> => d[1] = Header
  /\ \A k \in 1 .. Len(d) : d[k] = Footer => k = Len(d)

\* C15: when a worker's timer stops while the controlling thread executes
\* EndSession or BeginSession, stream and counter are accessed under mutual
\* exclusion: a measurement is recorded completely or not at all, so every
\* record of every file is complete, and nothing is written after or inside
\* the footer or before the header.
C15_LifecycleExcludesWrites ==
  \A p \in Paths : Contiguous(fs[p]) /\ Framed(fs[p])

\* C16: when the process exits with a session still active, the teardown of
\* the singleton ends it: the document receives its footer, exactly once, the
\* stream is closed and the session inactive.  When the session was ended
\* before, the teardown changes nothing.  Nothing happens after the teardown.
C16_TeardownEndsSession ==
  /\ [][ /\ ProcessExit =>
              IF ~ m_IsSessionActive THEN UNCHANGED sinkVars
              ELSE /\ ~ m_IsSessionActive'
                   /\ ~ m_OutputStream'.open
                   /\ IF m_OutputStream.open
                        THEN LET p == m_OutputStream.path
                             IN  /\ fs'[p] = fs[p] \o << Footer >>
                                 /\ Count(fs'[p], Footer) = 1
                                 /\ \A q \in Paths \ { p } : fs'[q] = fs[q]
                        ELSE fs' = fs
         /\ last.op = "~Instrumentor" => UNCHANGED vars ]_vars
  /\ [](last.op = "~Instrumentor" =>
          /\ ~ m_IsSessionActive
          /\ ~ m_OutputStream.open
          /\ \A p \in Paths : fs[p] # << >> => Finished(fs[p]) /\ Count(fs[p], Footer) = 1)

C16_Witness ==
  /\ last.op = "~Instrumentor"
  /\ last.wasActive
  /\ last.path \in GoodPaths
  /\ last.events > 0
  /\ Finished(fs[last.path])
  /\ Count(fs[last.path], Footer) = 1

\* C17: under weak fairness every Stop() call eventually returns, however many
\* timers are stopped concurrently or nested.  The lock is held only by a
\* thread that is executing the critical section, never by one that waits or
\* has returned, so a waiting thread never waits for a waiting thread.
C17_StopReturns ==
  /\ \A t \in Threads : (pc[t] # 0) ~> (pc[t] = 0)
  /\ [](/\ m_Lock # 0 => InsideLock(m_Lock)
        /\ \A t \in Threads : pc[t] \in { 0, 76 } => m_Lock # t
        /\ \A t \in Threads : pc[t] = 76 => (m_Lock = 0 \/ ENABLED StopStep(m_Lock)))

C17_Witness ==
  \E t, u \in Threads :
    /\ pc[t] = 76
    /\ m_Lock = u
    /\ u # t
    /\ Len(stack[t]) >= 2
    /\ stack[u] # << >>

\* The timers of the calls that took the lock since the last BeginSession.
AcqTimers == { acq[k].timer : k \in 1 .. Len(acq) }

\* C18: a measurement belongs to the session that is active when its timer
\* stops.  The document of the active session holds the records of exactly
\* the calls made since its BeginSession, whenever their timers were
\* constructed, each with the start of its timer as timestamp; BeginSession and
\* EndSession leave the timers as they are; a call made while no session is
\* active changes no file, and the document of an ended session holds the
\* calls made before its EndSession only.
C18_AttributedToSessionAtStop ==
  /\ [][ /\ (~ m_IsSessionActive /\ \E t \in Threads : WP_Count(t) \/ WP_Record(t) \/ WP_Flush(t))
              => fs' = fs
         /\ (EndSession \/ \E name \in Names, filePath \in Paths : BeginSession(name, filePath))
              => timers' = timers ]_vars
  /\ [](/\ \A t \in Threads :
             (pc[t] \in 94 .. 97 /\ m_IsSessionActive /\ m_OutputStream.open) =>
               Doc[NameIndex(t) + 4] =
                 << "ts", timers[cur[t].timer].m_StartPoint \div NsPerMicro >>
        /\ (m_IsSessionActive /\ m_OutputStream.open /\ m_Lock = 0) =>
             StripSeparators(fs[m_OutputStream.path]) = FlattenRecords(AcqResults(Len(acq)))
        /\ (last.op = "EndSession" /\ last.wasActive /\ last.path \in GoodPaths) =>
             StripSeparators(fs[last.path]) = FlattenRecords(AcqResults(last.events)))

\* Timer acq[1].timer was constructed before the session began (timer j,
\* constructed after it, was stopped before the BeginSession: it is not among
\* the calls made since) and stopped during the session; timer acq[2].timer
\* was stopped after the EndSession.
C18_Witness ==
  /\ last.op = "EndSession"
  /\ last.wasActive
  /\ last.path \in GoodPaths
  /\ last.events = 1
  /\ Len(acq) = 2
  /\ Quiescent
  /\ \E j \in TimerIds \ AcqTimers :
       /\ acq[1].timer < j
       /\ timers[j].st = "dead"
       /\ timers[j].submits = 1
  /\ StripSeparators(fs[last.path]) = RecordTokens(acq[1].result)
  /\ \A p \in Paths \ { last.path } : fs[p] = << >>

\* The documents have exactly one header, as first token, and at most one
\* footer, as last token; at most one document is unfinished.
DocumentsBalanced ==
  /\ \A p \in Paths :
       fs[p] # << >> =>
         /\ fs[p][1] = Header
         /\ Count(fs[p], Header) = 1
         /\ Count(fs[p], Footer) <= 1
         /\ \A k \in 1 .. Len(fs[p]) : fs[p][k] = Footer => k = Len(fs[p])
  /\ Cardinality({ p \in Paths : fs[p] # << >> /\ ~ Finished(fs[p]) }) <= 1

\* C19: over any sequence of BeginSession, EndSession and WriteProfile calls
\* with one controlling thread, every opened document has exactly one header,
\* as its first content, and at most one footer, as its last content; at most
\* one session is active; and the active flag is true exactly when the current
\* document has a header and no footer.
C19_HeadersAndFootersBalanced ==
  /\ DocumentsBalanced
  /\ m_IsSessionActive <=>
       /\ m_OutputStream.open
       /\ Count(fs[m_OutputStream.path], Header) = 1
       /\ Count(fs[m_OutputStream.path], Footer) = 0

\* The low 32 bits of the hash of thread t's id.
Low32OfHash(t) == << ThreadHash(t)[1], ThreadHash(t)[2] >>

\* C20: the tid of an event is the hash of the id of the thread that executed
\* Stop(), not of the one that constructed the timer, reduced to 32 bits, so
\* it is the same for all measurements stopped on one thread; every event has
\* cat "function", ph "X" and pid 0.
C20_ThreadIdAndConstants ==
  /\ \A t \in Threads : pc[t] # 0 => cur[t].result.m_ThreadID = Low32OfHash(t)
  /\ \A t \in Threads :
       (pc[t] = 97 /\ m_OutputStream.open) =>
         /\ Doc[NameIndex(t) - 2] = << "cat", "function" >>
         /\ Doc[NameIndex(t) + 1] = << "ph", "X" >>
         /\ Doc[NameIndex(t) + 2] = << "pid", 0 >>
         /\ Doc[NameIndex(t) + 3] = << "tid", Low32OfHash(t) >>
  /\ \A p \in Paths : \A k \in 1 .. Len(fs[p]) :
       LET tok == fs[p][k]
       IN  /\ tok[1] = "cat" => tok[2] = "function"
           /\ tok[1] = "ph" => tok[2] = "X"
           /\ tok[1] = "pid" => tok[2] = 0
           /\ tok[1] = "tid" => \E t \in started : tok[2] = Low32OfHash(t)

C20_Witness ==
  \E t \in Threads :
    /\ pc[t] = 97
    /\ m_OutputStream.open
    /\ timers[cur[t].timer].owner # t
    /\ ThreadHash(t)[3] # 0
    /\ Low32OfHash(t) # Low32OfHash(timers[cur[t].timer].owner)
    /\ Doc[NameIndex(t) + 3] = << "tid", Low32OfHash(t) >>
====
